---- MODULE Spec2Model ----
(***************************************************************************)
(* mollie-cli: resource-name resolution (mollie_cli/client.py) and output  *)
(* formatting (mollie_cli/formatting.py, mollie_cli/cli.py).               *)
(*                                                                         *)
(* Resource names, hints, id prefixes and resource ids are Python strings; *)
(* they are modelled as sequences of one-character strings so that         *)
(* substring (`in`) and str.startswith are computed, not assumed.          *)
(***************************************************************************)
EXTENDS Integers, Sequences, FiniteSets, TLC

VARIABLES
    client,       \* the vendor client held in self._client / self._testmode
    pc,           \* "start" before the call, "done" after it
    call,         \* the operation that ran and its arguments
    ret,          \* what the operation returned or raised
    vendorCalls,  \* calls dispatched to the vendor client, in order
    stdout,       \* what click.echo wrote to standard output, in order
    ctx,          \* ctx.obj of the command: the --format option
    formatterCalls, \* the formatter invocations of a command, in order
    stderr,       \* what was written to the error stream, in order
    exit          \* whether the process has exited, and its exit code

vars == <<client, pc, call, ret, vendorCalls, stdout, ctx,
          formatterCalls, stderr, exit>>

----------------------------------------------------------------------------
(* Bounds of the explored inputs.                                          *)

MaxHintLen == 2
MaxIdLen == 3

(* Characters the explored strings are made of.                            *)
Chars == {"a", "b"}

(* Python's None, where an argument of string type may be None.            *)
None == <<"None">>

(* All strings over Chars of length 0..n.                                  *)
StringsUpTo(n) == UNION {[1..k -> Chars] : k \in 0..n}

Hints == StringsUpTo(MaxHintLen)
ResourceIds == StringsUpTo(MaxIdLen)

(* Attribute names of the vendor client that may hold a resource, and the  *)
(* values RESOURCE_ID_PREFIX may take on them.                             *)
AttrNames == {<<"a">>, <<"a", "b">>, <<"b", "a">>}
IdPrefixes == {<<"a">>, <<"a", "b">>, <<"b">>}

(* An attribute either has no RESOURCE_ID_PREFIX, or has one that may be   *)
(* empty (falsy).                                                          *)
AttrValues ==
    {[has |-> FALSE, prefix |-> <<>>]}
        \cup {[has |-> TRUE, prefix |-> p] : p \in IdPrefixes \cup {<<>>}}

(* The vendor's answers to a dispatched call.                              *)
VendorOutcomes == {"ok", "NativeMollieError", "AttributeError"}

Limits == {1, 10}

----------------------------------------------------------------------------
(* Python string primitives.                                               *)

(* ord() of the characters in use.                                         *)
Ord(c) ==
    CASE c = "A" -> 65  [] c = "_" -> 95  [] c = "a" -> 97  [] c = "b" -> 98
      [] c = "c" -> 99  [] c = "d" -> 100 [] c = "e" -> 101 [] c = "i" -> 105
      [] c = "o" -> 111 [] c = "r" -> 114 [] c = "s" -> 115 [] c = "u" -> 117

(* s < t for str: lexicographic by code point.                             *)
RECURSIVE StrLess(_, _)
StrLess(s, t) ==
    IF t = <<>> THEN FALSE
    ELSE IF s = <<>> THEN TRUE
    ELSE IF Head(s) # Head(t) THEN Ord(Head(s)) < Ord(Head(t))
    ELSE StrLess(Tail(s), Tail(t))

(* `sub in s` for str.                                                     *)
StrIn(sub, s) ==
    \E i \in 0..(Len(s) - Len(sub)) : SubSeq(s, i + 1, i + Len(sub)) = sub

(* Variant of startswith: the prefix found anywhere in s.                  *)
StartsWith_anywhere(s, prefix) == StrIn(prefix, s)

(* s.startswith(prefix)                                                    *)
StartsWith(s, prefix) ==
    Len(prefix) <= Len(s) /\ SubSeq(s, 1, Len(prefix)) = prefix

(* sorted(S) for a set of str.                                             *)
RECURSIVE Sorted(_)
Sorted(S) ==
    IF S = {} THEN <<>>
    ELSE LET least == CHOOSE s \in S : \A t \in S \ {s} : StrLess(s, t)
         IN  <<least>> \o Sorted(S \ {least})

(* dir(self._client): the attribute names, sorted.                         *)
Dir(c) == Sorted(DOMAIN c.attrs)

----------------------------------------------------------------------------
(* Outcomes of a call: a returned value or a raised exception.             *)

NoMsg == [text |-> "", arg |-> <<>>, names |-> <<>>]
Return(v) == [exc |-> "none", value |-> v, msg |-> NoMsg]
Raise(cls, text, arg, names) ==
    [exc |-> cls, value |-> None,
     msg |-> [text |-> text, arg |-> arg, names |-> names]]

----------------------------------------------------------------------------
(* BaseAPIClient                                                           *)

(* get_supported_resources_map: the attributes of the vendor client with a *)
(* truthy RESOURCE_ID_PREFIX, as <<name, prefix>> pairs in dict insertion  *)
(* order, which is the order of dir().                                     *)
RECURSIVE ResourcesFrom(_, _)
ResourcesFrom(c, names) ==
    IF names = <<>> THEN <<>>
    ELSE LET attrname == Head(names)
             attr == c.attrs[attrname]
         IN  (IF attr.has /\ attr.prefix # <<>>
                 THEN <<(<<attrname, attr.prefix>>)>>
                 ELSE <<>>)
             \o ResourcesFrom(c, Tail(names))

get_supported_resources_map(c) == ResourcesFrom(c, Dir(c))

(* map_.keys(), in order.                                                  *)
Keys(map_) == [i \in 1..Len(map_) |-> map_[i][1]]

Range(seq) == {seq[i] : i \in 1..Len(seq)}

(* Variants of find_resource_name: without the direct match; with every   *)
(* known name in the ambiguity message; with the matches in the message    *)
(* for an unknown name.                                                    *)
find_resource_name_variant(c, hint, direct, ambiguous_all, unknown_all) ==
    LET map_ == get_supported_resources_map(c)
        resources == SelectSeq(Keys(map_), LAMBDA name : StrIn(hint, name))
    IN  IF direct /\ hint \in Range(Keys(map_)) THEN Return(hint)
        ELSE IF resources = <<>>
            THEN Raise("ClientError", "No resource found for name", hint,
                       IF unknown_all THEN Keys(map_) ELSE resources)
        ELSE IF Len(resources) > 1
            THEN Raise("ClientError", "Hint matches multiple resources", <<>>,
                       IF ambiguous_all THEN Keys(map_) ELSE resources)
        ELSE Return(resources[1])

find_resource_name_substring_only(c, hint) ==
    find_resource_name_variant(c, hint, FALSE, FALSE, TRUE)
find_resource_name_ambiguous_lists_all(c, hint) ==
    find_resource_name_variant(c, hint, TRUE, TRUE, TRUE)
find_resource_name_unknown_lists_matches(c, hint) ==
    find_resource_name_variant(c, hint, TRUE, FALSE, FALSE)

(* find_resource_name(hint)                                                *)
find_resource_name(c, hint) ==
    LET map_ == get_supported_resources_map(c)
        resources == SelectSeq(Keys(map_), LAMBDA name : StrIn(hint, name))
    IN  IF hint \in Range(Keys(map_)) THEN Return(hint)
        ELSE IF resources = <<>>
            THEN Raise("ClientError", "No resource found for name", hint, Keys(map_))
        ELSE IF Len(resources) > 1
            THEN Raise("ClientError", "Hint matches multiple resources", <<>>, resources)
        ELSE Return(resources[1])

(* get_params: the keyword arguments given, updated with testmode "true"   *)
(* when the client is in test mode.                                        *)
get_params(c, params) ==
    IF c.testmode THEN [testmode |-> "true"] @@ params ELSE params

(* No keyword arguments.                                                   *)
NoParams == [k \in {} |-> ""]

(* Variant of the loop of get() without the break: the last match.         *)
RECURSIVE FirstByPrefix_no_break(_, _)
FirstByPrefix_no_break(map_, resource_id) ==
    IF map_ = <<>> THEN None
    ELSE LET later == FirstByPrefix_no_break(Tail(map_), resource_id)
         IN  IF later # None THEN later
             ELSE IF StartsWith(resource_id, Head(map_)[2]) THEN Head(map_)[1]
             ELSE None

(* The loop of get() over map_.items(): the first name whose prefix the    *)
(* resource id starts with, or None.                                       *)
RECURSIVE FirstByPrefix(_, _)
FirstByPrefix(map_, resource_id) ==
    IF map_ = <<>> THEN None
    ELSE IF StartsWith(resource_id, Head(map_)[2]) THEN Head(map_)[1]
    ELSE FirstByPrefix(Tail(map_), resource_id)

(* The resource name get() settles on: an outcome, the name or None.       *)
get_resource_name(c, resource_id, hint) ==
    IF hint # None /\ hint # <<>>
        THEN find_resource_name(c, hint)
        ELSE Return(FirstByPrefix(get_supported_resources_map(c), resource_id))

(* The vendor call of get()/list() and the translation of its failures.    *)
VendorCall(op, resource_name, resource_id, params, outcome) ==
    [op |-> op, resource |-> resource_name, id |-> resource_id,
     params |-> params, outcome |-> outcome]

(* get(resource_id, hint): the outcome and the vendor calls made.          *)
get(c, resource_id, hint, outcome) ==
    LET found == get_resource_name(c, resource_id, hint)
        resource_name == found.value
    IN  IF found.exc # "none" THEN [out |-> found, calls |-> <<>>]
        ELSE IF resource_name = None
            THEN [out |-> Raise("ClientError", "Cannot find a resource for id",
                                resource_id, <<>>),
                  calls |-> <<>>]
        ELSE [out |-> CASE outcome = "NativeMollieError" ->
                            Raise("APIError", "NativeMollieError", <<>>, <<>>)
                        [] outcome = "AttributeError" ->
                            Raise("ClientError",
                                  "Resource doesn't support getting single objects",
                                  resource_name, <<>>)
                        [] OTHER -> Return(resource_name),
              calls |-> <<VendorCall("get", resource_name, resource_id,
                                     get_params(c, NoParams), outcome)>>]

(* Variant of list: the name given is handed to the vendor as it is,       *)
(* without find_resource_name.                                             *)
list_without_resolution(c, name, limit, outcome) ==
    [out |-> CASE outcome = "NativeMollieError" ->
                    Raise("APIError", "NativeMollieError", <<>>, <<>>)
               [] outcome = "AttributeError" ->
                    Raise("ClientError", "Resource doesn't support listing",
                          name, <<>>)
               [] OTHER -> Return(name),
     calls |-> <<VendorCall("list", name, <<>>,
                            get_params(c, [limit |-> limit]), outcome)>>]

(* list(resource_name, limit)                                              *)
list(c, name, limit, outcome) ==
    LET found == find_resource_name(c, name)
        resource_name == found.value
    IN  IF found.exc # "none" THEN [out |-> found, calls |-> <<>>]
        ELSE [out |-> CASE outcome = "NativeMollieError" ->
                            Raise("APIError", "NativeMollieError", <<>>, <<>>)
                        [] outcome = "AttributeError" ->
                            Raise("ClientError", "Resource doesn't support listing",
                                  resource_name, <<>>)
                        [] OTHER -> Return(resource_name),
              calls |-> <<VendorCall("list", resource_name, <<>>,
                                     get_params(c, [limit |-> limit]), outcome)>>]

----------------------------------------------------------------------------
(* The client operations as steps of a run.                                *)

Clients == [attrs : [AttrNames -> AttrValues], testmode : BOOLEAN]

FORMAT_TABLE == "table"
FORMAT_JSON == "json"
FORMAT_CSV == "csv"
ALL_FORMATS == <<FORMAT_TABLE, FORMAT_JSON, FORMAT_CSV>>

(* The process: running, or exited with a code.                            *)
Running == [exited |-> FALSE, code |-> 0]
Exited(code) == [exited |-> TRUE, code |-> code]

NoCall == [op |-> "none"]

InitClient ==
    /\ client \in Clients
    /\ pc = "start"
    /\ call = NoCall
    /\ ret = Return(None)
    /\ vendorCalls = <<>>
    /\ stdout = <<>>
    /\ ctx = [formatting |-> ALL_FORMATS[1]]
    /\ formatterCalls = <<>>
    /\ stderr = <<>>
    /\ exit = Running

FindResourceName ==
    /\ pc = "start"
    /\ \E hint \in Hints :
           /\ pc' = "done"
           /\ call' = [op |-> "find_resource_name", hint |-> hint]
           /\ ret' = find_resource_name(client, hint)
           /\ UNCHANGED <<ctx, formatterCalls, stderr, exit, client, vendorCalls, stdout>>

Get ==
    /\ pc = "start"
    /\ \E resource_id \in ResourceIds, hint \in Hints \cup {None},
          outcome \in VendorOutcomes :
           LET r == get(client, resource_id, hint, outcome)
           IN  /\ pc' = "done"
               /\ call' = [op |-> "get", resource_id |-> resource_id, hint |-> hint]
               /\ ret' = r.out
               /\ vendorCalls' = vendorCalls \o r.calls
               /\ UNCHANGED <<ctx, formatterCalls, stderr, exit, client, stdout>>

List ==
    /\ pc = "start"
    /\ \E name \in Hints, limit \in Limits, outcome \in VendorOutcomes :
           LET r == list(client, name, limit, outcome)
           IN  /\ pc' = "done"
               /\ call' = [op |-> "list", resource_name |-> name, limit |-> limit]
               /\ ret' = r.out
               /\ vendorCalls' = vendorCalls \o r.calls
               /\ UNCHANGED <<ctx, formatterCalls, stderr, exit, client, stdout>>

NextClient == FindResourceName \/ Get \/ List

SpecClient == InitClient /\ [][NextClient]_vars

----------------------------------------------------------------------------
(* formatting.py: values.                                                  *)
(*                                                                         *)
(* A Python value is a record of its type (kind), its text (s) and, for a  *)
(* mapping, its items in insertion order as <<key, value>> pairs.  Keys of *)
(* mappings and of the list projections are TLA+ strings: the code only    *)
(* compares and concatenates them.  Attribute names seen through dir() are *)
(* character sequences: the code inspects their characters.                *)

StrValue(t) == [kind |-> "str", s |-> t, items |-> <<>>]
IntValue(t) == [kind |-> "int", s |-> t, items |-> <<>>]
BoolValue(t) == [kind |-> "bool", s |-> t, items |-> <<>>]
NoneValue == [kind |-> "none", s |-> "", items |-> <<>>]
Dict(items) == [kind |-> "dict", s |-> "", items |-> items]
(* An instance of a subclass of dict (a nested vendor object).             *)
DictSubclass(items) == [kind |-> "dictsub", s |-> "", items |-> items]
ListValue == [kind |-> "list", s |-> "", items |-> <<>>]
Method == [kind |-> "method", s |-> "", items |-> <<>>]
DateTime(t) == [kind |-> "datetime", s |-> t, items |-> <<>>]
(* The attribute does not exist: getattr raises AttributeError.            *)
Absent == [kind |-> "absent", s |-> "", items |-> <<>>]

(* type(value) in (str, int, bool) or value is None                        *)
IsPrimitiveOrNone(value) == value.kind \in {"str", "int", "bool", "none"}

(* value.keys() of a dict, in order; value[key].                           *)
DictKeys(value) == [i \in 1..Len(value.items) |-> value.items[i][1]]
DictGet(value, key) ==
    LET i == CHOOSE j \in 1..Len(value.items) : value.items[j][1] = key
    IN  value.items[i][2]

(* d[key] = value on an insertion-ordered dict held as a sequence of       *)
(* pairs: an existing key keeps its position and takes the new value.      *)
DictSet(items, key, value) ==
    IF \E i \in 1..Len(items) : items[i][1] = key
        THEN [i \in 1..Len(items) |->
                IF items[i][1] = key THEN <<key, value>> ELSE items[i]]
        ELSE Append(items, <<key, value>>)

(* The strings datetime.datetime.fromisoformat accepts among those in use, *)
(* and str() of the datetime it returns.                                   *)
IsIsoFormat(t) == t \in {"2022-05-01T12:00:00+00:00"}
FromIsoFormat(t) ==
    CASE t = "2022-05-01T12:00:00+00:00" -> DateTime("2022-05-01 12:00:00+00:00")


(* RESOURCES_LIST_PROPERTIES: per resource name, <<label, key>> pairs in   *)
(* dict order.                                                             *)
RESOURCES_LIST_PROPERTIES ==
    [_default_ |-> << <<"ID", "id">> >>,
     clients |-> << <<"ID", "id">>,
                    <<"Organization created at", "organisation_created_at">> >>,
     customers |-> << <<"ID", "id">>, <<"E-mail", "email">> >>,
     orders |-> << <<"ID", "id">>, <<"Amount", "amount">>,
                   <<"Status", "status">>, <<"Paid at", "paid_at">> >>,
     payments |-> << <<"ID", "id">>, <<"Amount", "amount">>,
                     <<"Status", "status">>, <<"Paid at", "paid_at">> >>,
     profiles |-> << <<"ID", "id">>, <<"Name", "name">>,
                     <<"E-mail", "email">>, <<"Status", "status">> >>,
     refunds |-> << <<"ID", "id">>, <<"Amount", "amount">>,
                    <<"Status", "status">>, <<"Description", "description">> >>]

(* Variant of properties.keys(): the field keys in place of the labels.    *)
Labels_field_keys(properties) == [i \in 1..Len(properties) |-> properties[i][2]]

(* properties.keys() and properties.values()                               *)
Labels(properties) == [i \in 1..Len(properties) |-> properties[i][1]]
FieldKeys(properties) == [i \in 1..Len(properties) |-> properties[i][2]]

(* The try/except KeyError lookup of the projection.                       *)
PropertiesFor(resource_name) ==
    IF resource_name \in DOMAIN RESOURCES_LIST_PROPERTIES
        THEN RESOURCES_LIST_PROPERTIES[resource_name]
        ELSE RESOURCES_LIST_PROPERTIES["_default_"]

(* What a formatter did: the exception it ended with ("none" when it       *)
(* returned) and what it passed to click.echo, in order.                   *)
Formatted(echoed) == [ret |-> Return(None), echoed |-> echoed]
FormatFailed(cls, text, arg) ==
    [ret |-> Raise(cls, text, arg, <<>>), echoed |-> <<>>]

----------------------------------------------------------------------------
(* flatten_dict and csv_format_value                                       *)

(* flatten_dict(data, key_prefix): the flattened dict as pairs in order.   *)
(* FlattenItems walks data.items(); FlattenMerge is the inner loop that    *)
(* copies the flattened nested dict into the result.                       *)
RECURSIVE FlattenMerge(_, _)
FlattenMerge(flattened, nested) ==
    IF nested = <<>> THEN flattened
    ELSE FlattenMerge(DictSet(flattened, Head(nested)[1], Head(nested)[2]),
                      Tail(nested))

RECURSIVE FlattenItems(_, _, _)
FlattenItems(flattened, items, key_prefix) ==
    IF items = <<>> THEN flattened
    ELSE LET key == Head(items)[1]
             value == Head(items)[2]
             final_key == IF key_prefix # "" THEN key_prefix \o "_" \o key ELSE key
         IN  IF key = "_links"
                 THEN FlattenItems(flattened, Tail(items), key_prefix)
             ELSE IF IsPrimitiveOrNone(value)
                 THEN FlattenItems(DictSet(flattened, final_key, value),
                                   Tail(items), key_prefix)
             ELSE IF value.kind = "dict"
                 THEN FlattenItems(
                          FlattenMerge(flattened,
                                       FlattenItems(<<>>, value.items, final_key)),
                          Tail(items), key_prefix)
             ELSE FlattenItems(flattened, Tail(items), key_prefix)

flatten_dict(data) == FlattenItems(<<>>, data.items, "")

(* csv_format_value(value): the outcome.  fromisoformat raises ValueError  *)
(* for a str it cannot parse, which is caught, and TypeError for anything  *)
(* that is not a str, which is not.                                        *)
csv_format_value(value) ==
    IF value.kind = "none" THEN Return(value)
    ELSE IF value.kind # "str"
        THEN Raise("TypeError", "fromisoformat: argument must be str", <<>>, <<>>)
    ELSE IF IsIsoFormat(value.s) THEN Return(FromIsoFormat(value.s))
    ELSE Return(value)

(* [csv_format_value(f) for f in row]: the cells, and whether one raised.  *)
FormatRow(row) == [i \in 1..Len(row) |-> csv_format_value(row[i]).value]
RowRaises(row) == \E i \in 1..Len(row) : csv_format_value(row[i]).exc # "none"

----------------------------------------------------------------------------
(* format_list_result                                                      *)

(* What click.echo was given: CSV text as its rows of cells, a tabulated   *)
(* table as its rows of cells (the header row first), a line of text with  *)
(* the values interpolated into it, or the JSON dump of the data.          *)
EchoCsv(rows) == [fmt |-> "csv", text |-> "", rows |-> rows, data |-> <<>>]
EchoTable(rows) == [fmt |-> "table", text |-> "", rows |-> rows, data |-> <<>>]
EchoText(text, args) == [fmt |-> "text", text |-> text, rows |-> <<args>>, data |-> <<>>]
EchoJson(data) == [fmt |-> "json", text |-> "", rows |-> <<>>, data |-> data]

(* list.index, list.insert and list.remove on a sequence.                  *)
IndexOf(seq, x) ==
    CHOOSE i \in 1..Len(seq) : seq[i] = x /\ \A j \in 1..(i - 1) : seq[j] # x
InsertAt(seq, i, x) == SubSeq(seq, 1, i - 1) \o <<x>> \o SubSeq(seq, i, Len(seq))
RemoveFirst(seq, x) ==
    LET i == IndexOf(seq, x)
    IN  SubSeq(seq, 1, i - 1) \o SubSeq(seq, i + 1, Len(seq))

(* Variant of the key comparison: the keys compared as a list.             *)
KeysViewEqualsList_as_list(keys, lst) == keys = lst

(* value.keys() == ["currency", "value"]: a dict keys view compared with a *)
(* list.  In Python 3 a keys view is equal only to set-like objects, so    *)
(* the comparison with a list is False whatever the keys are.              *)
KeysViewEqualsList(keys, lst) == FALSE

(* The loop over value.keys() of the amount branch.                        *)
RECURSIVE AmountCells(_, _, _, _)
AmountCells(st, key, value, sub_keys) ==
    IF sub_keys = <<>> THEN st
    ELSE LET sub_key == Head(sub_keys)
             new_header == key \o "_" \o sub_key
             headers ==
                 IF new_header \notin Range(st.headers)
                     THEN InsertAt(st.headers, IndexOf(st.headers, key), new_header)
                     ELSE st.headers
         IN  AmountCells([st EXCEPT !.headers = headers,
                                    !.row = Append(@, DictGet(value, sub_key))],
                         key, value, Tail(sub_keys))

(* One pass of the loop over properties.values() for one object.           *)
CsvCell(st, obj, key) ==
    LET value == obj[key]
    IN  IF st.exc # "none" THEN st
        ELSE IF value = Absent THEN [st EXCEPT !.exc = "AttributeError"]
        ELSE IF IsPrimitiveOrNone(value)
            THEN [st EXCEPT !.row = Append(@, value)]
        ELSE IF value.kind = "dict"
                /\ KeysViewEqualsList(DictKeys(value), <<"currency", "value">>)
            THEN [AmountCells(st, key, value, DictKeys(value))
                    EXCEPT !.headers_to_remove = Append(@, key)]
        ELSE [st EXCEPT !.headers_to_remove = Append(@, key)]

RECURSIVE CsvCells(_, _, _)
CsvCells(st, obj, keys) ==
    IF keys = <<>> THEN st
    ELSE CsvCells(CsvCell(st, obj, Head(keys)), obj, Tail(keys))

(* The loop over the objects of result: each adds its row to rows.         *)
RECURSIVE CsvRows(_, _, _)
CsvRows(st, result, keys) ==
    IF result = <<>> THEN st
    ELSE LET after == CsvCells([st EXCEPT !.row = <<>>], Head(result), keys)
         IN  CsvRows([after EXCEPT !.rows = Append(@, after.row)],
                     Tail(result), keys)

(* for header in set(headers_to_remove): headers.remove(header)            *)
RECURSIVE RemoveHeaders(_, _)
RemoveHeaders(headers, to_remove) ==
    IF to_remove = {} THEN headers
    ELSE LET header == CHOOSE h \in to_remove : TRUE
         IN  RemoveHeaders(RemoveFirst(headers, header), to_remove \ {header})

(* The CSV branch of format_list_result.                                   *)
ListCsv(result, properties) ==
    LET st == CsvRows([headers |-> FieldKeys(properties),
                       headers_to_remove |-> <<>>,
                       row |-> <<>>, rows |-> <<>>, exc |-> "none"],
                      result, FieldKeys(properties))
        headers == RemoveHeaders(st.headers, Range(st.headers_to_remove))
    IN  IF st.exc # "none" THEN FormatFailed(st.exc, "", "")
        ELSE IF \E i \in 1..Len(st.rows) : RowRaises(st.rows[i])
            THEN FormatFailed("TypeError", "fromisoformat: argument must be str", "")
        ELSE Formatted(<<EchoCsv(
                 << [i \in 1..Len(headers) |-> StrValue(headers[i])] >>
                 \o [i \in 1..Len(st.rows) |-> FormatRow(st.rows[i])])>>)

(* The text tabulate puts in a cell: the missing-value text, which is      *)
(* empty by default, for None, and str() of any other value.               *)
TabulateCell(value) ==
    CASE value.kind = "none" -> ""
      [] value.kind \in {"dict", "dictsub"} -> "{...}"
      [] value.kind = "list" -> "[...]"
      [] OTHER -> value.s

(* [getattr(item, p) for p in properties.values()]                         *)
TableRow(item, keys) == [i \in 1..Len(keys) |-> item[keys[i]]]

(* The TABLE branch of format_list_result.                                 *)
ListTable(result, resource_name, properties) ==
    LET header == [i \in 1..Len(properties) |-> StrValue(Labels(properties)[i])]
        keys == FieldKeys(properties)
    IN  IF \E i \in 1..Len(result), k \in Range(keys) : result[i][k] = Absent
            THEN FormatFailed("AttributeError", "", "")
        ELSE Formatted(<<EchoText("List of", <<StrValue(resource_name)>>),
                         EchoTable(<<header>>
                             \o [i \in 1..Len(result) |-> TableRow(result[i], keys)])>>)

(* Variant of format_list_result: the format compared without regard to   *)
(* case.                                                                   *)
Lower(formatting) == IF formatting = "CSV" THEN "csv" ELSE formatting
format_list_result_any_case(result, resource_name, formatting) ==
    LET properties == PropertiesFor(resource_name)
    IN  IF Lower(formatting) = FORMAT_JSON THEN Formatted(<<EchoJson(result)>>)
        ELSE IF Lower(formatting) = FORMAT_CSV THEN ListCsv(result, properties)
        ELSE IF Lower(formatting) = FORMAT_TABLE
            THEN ListTable(result, resource_name, properties)
        ELSE FormatFailed("ClientError", "Unsupported formatting", formatting)

(* format_list_result(result, resource_name, formatting)                   *)
format_list_result(result, resource_name, formatting) ==
    LET properties == PropertiesFor(resource_name)
    IN  IF formatting = FORMAT_JSON THEN Formatted(<<EchoJson(result)>>)
        ELSE IF formatting = FORMAT_CSV THEN ListCsv(result, properties)
        ELSE IF formatting = FORMAT_TABLE
            THEN ListTable(result, resource_name, properties)
        ELSE FormatFailed("ClientError", "Unsupported formatting", formatting)

(* cli.py format_result_list(result, resource_name): the table only.       *)
format_result_list(result, resource_name) ==
    ListTable(result, resource_name, PropertiesFor(resource_name))

----------------------------------------------------------------------------
(* format_get_result                                                       *)

(* Variant of isupper: every character an uppercase letter.                *)
IsUpper_letters_only(key) == \A i \in 1..Len(key) : Ord(key[i]) \in 65..90

(* key.isupper(): some cased character, and no lowercase one.              *)
IsUpper(key) ==
    /\ \E i \in 1..Len(key) : Ord(key[i]) \in 65..90
    /\ \A i \in 1..Len(key) : Ord(key[i]) \notin 97..122

(* isinstance(value, (str, int, bool, dict)) or value is None              *)
IsInstanceOrNone(value) ==
    value.kind \in {"str", "int", "bool", "dict", "dictsub", "none"}

(* The loop over dir(result) that collects the [key, value] rows.          *)
RECURSIVE ItemRows(_, _)
ItemRows(result, keys) ==
    IF keys = <<>> THEN <<>>
    ELSE LET key == Head(keys)
             value == result.attrs[key]
         IN  (IF StartsWith(key, <<"_">>) \/ IsUpper(key) THEN <<>>
              ELSE IF ~IsInstanceOrNone(value) THEN <<>>
              ELSE <<(<<key, value>>)>>)
             \o ItemRows(result, Tail(keys))

resource_attr == <<"r", "e", "s", "o", "u", "r", "c", "e">>
id_attr == <<"i", "d">>

(* The table of one item under the given header, with its title line.      *)
ItemTable(result, header) ==
    IF ~({resource_attr, id_attr} \subseteq DOMAIN result.attrs)
        THEN FormatFailed("AttributeError", "", "")
    ELSE
    Formatted(<<EchoText("Properties of with id",
                         <<result.attrs[resource_attr], result.attrs[id_attr]>>),
                EchoTable(<<header>> \o ItemRows(result, Sorted(DOMAIN result.attrs)))>>)

(* The CSV branch of format_get_result.                                    *)
ItemCsv(result) ==
    LET flat == flatten_dict(result)
        headers == [i \in 1..Len(flat) |-> StrValue(flat[i][1])]
        row == [i \in 1..Len(flat) |-> flat[i][2]]
    IN  IF RowRaises(row)
            THEN FormatFailed("TypeError", "fromisoformat: argument must be str", "")
        ELSE Formatted(<<EchoCsv(<<headers, FormatRow(row)>>)>>)

(* format_get_result(result, formatting)                                   *)
format_get_result(result, formatting) ==
    IF formatting = FORMAT_JSON THEN Formatted(<<EchoJson(result.items)>>)
    ELSE IF formatting = FORMAT_CSV THEN ItemCsv(result)
    ELSE IF formatting = FORMAT_TABLE
        THEN ItemTable(result, <<StrValue("Property"), StrValue("Value")>>)
    ELSE FormatFailed("ClientError", "Unsupported formatting", formatting)

(* cli.py format_result_item(result)                                       *)
format_result_item(result) ==
    ItemTable(result, <<StrValue("Parameter"), StrValue("Value")>>)

----------------------------------------------------------------------------
(* The formatters as steps of a run, over bounded inputs.                  *)

MaxRecords == 2
MaxAttrs == 2
MaxItems == 2

IsoString == "2022-05-01T12:00:00+00:00"
Amount == Dict(<< <<"currency", StrValue("EUR")>>, <<"value", StrValue("10.00")>> >>)

(* The formatting argument: the three formats and two other strings.       *)
Formattings == Range(ALL_FORMATS) \cup {"xml", "CSV"}

(* Resource names: the registered ones and one without a projection.       *)
ResourceNames == (DOMAIN RESOURCES_LIST_PROPERTIES \ {"_default_"}) \cup {"methods"}

(* The values explored for each projected attribute of a listed object.    *)
FieldValues(key) ==
    CASE key = "id" -> {StrValue("tr_1")}
      [] key = "amount" -> {Amount, NoneValue}
      [] key = "status" -> {StrValue("paid"), ListValue, Absent}
      [] key = "paid_at" -> {StrValue(IsoString), NoneValue}
      [] key = "email" -> {StrValue("a@x.com"), NoneValue, IntValue("1")}
      [] key = "name" -> {StrValue("shop"), BoolValue("True")}
      [] key = "description" -> {StrValue("refund"), DictSubclass(<<>>)}
      [] key = "organisation_created_at" ->
            {StrValue(IsoString), NoneValue, StrValue("never")}

(* The objects a list of the resource may hold, and the lists explored.    *)
Objects(resource_name) ==
    LET keys == Range(FieldKeys(PropertiesFor(resource_name)))
    IN  {obj \in [keys -> UNION {FieldValues(k) : k \in keys}] :
            \A k \in keys : obj[k] \in FieldValues(k)}
ListResults(resource_name) ==
    UNION {[1..n -> Objects(resource_name)] : n \in 0..MaxRecords}

(* Attributes of a fetched item as dir() shows them: resource and id, and  *)
(* up to MaxAttrs more, of every kind of name and value.                   *)
ExtraAttrNames ==
    {<<"_", "a">>, <<"a">>, <<"a", "A">>, <<"A">>, <<"A", "_">>, <<"_", "A">>,
     <<"a", "_">>}
AttrSamples ==
    {StrValue("paid"), IntValue("1"), BoolValue("True"),
     Dict(<< <<"value", StrValue("10.00")>> >>), DictSubclass(<<>>),
     NoneValue, ListValue, Method}
BaseAttrs == (resource_attr :> StrValue("payment")) @@ (id_attr :> StrValue("tr_1"))
ItemAttrs ==
    {f @@ BaseAttrs :
        f \in UNION {[S -> AttrSamples] :
                        S \in {T \in SUBSET ExtraAttrNames : Cardinality(T) <= MaxAttrs}}}

(* Items of a fetched item as its dict holds them: up to MaxItems entries  *)
(* with distinct keys, in any order.                                       *)
ItemEntries ==
    {<<"id", StrValue("tr_1")>>,
     <<"count", IntValue("2")>>,
     <<"createdAt", StrValue(IsoString)>>,
     <<"description", NoneValue>>,
     <<"tags", ListValue>>,
     <<"amount", Amount>>,
     <<"amount_value", StrValue("9.99")>>,
     <<"customer", DictSubclass(<< <<"id", StrValue("cst_1")>> >>)>>,
     <<"_links", Dict(<< <<"self", Dict(<< <<"href", StrValue("https://x")>> >>)>> >>)>>,
     <<"details",
       Dict(<< <<"_links", Dict(<< <<"card", StrValue("https://y")>> >>)>>,
               <<"card", Dict(<< <<"_links", StrValue("https://z")>>,
                                 <<"number", StrValue("1234")>> >>)>> >>)>>}
ItemDicts ==
    {items \in UNION {[1..n -> ItemEntries] : n \in 0..MaxItems} :
        \A i, j \in 1..Len(items) : items[i][1] = items[j][1] => i = j}

(* The fetched items explored: every attribute view with a one-entry dict, *)
(* and every dict with the base attributes.                                *)
BaseItems == << <<"id", StrValue("tr_1")>> >>
ItemResults ==
    {[attrs |-> a, items |-> BaseItems] : a \in ItemAttrs}
        \cup {[attrs |-> BaseAttrs, items |-> d] : d \in ItemDicts}

(* A client with no resources: the formatters do not use the client.       *)
NoClient ==
    [attrs |-> [n \in AttrNames |-> [has |-> FALSE, prefix |-> <<>>]],
     testmode |-> FALSE]

InitFormatting ==
    /\ client = NoClient
    /\ pc = "start"
    /\ call = NoCall
    /\ ret = Return(None)
    /\ vendorCalls = <<>>
    /\ stdout = <<>>
    /\ ctx = [formatting |-> ALL_FORMATS[1]]
    /\ formatterCalls = <<>>
    /\ stderr = <<>>
    /\ exit = Running

FormatListResult ==
    /\ pc = "start"
    /\ \E resource_name \in ResourceNames, formatting \in Formattings :
           \E result \in ListResults(resource_name) :
               LET r == format_list_result(result, resource_name, formatting)
               IN  /\ pc' = "done"
                   /\ call' = [op |-> "format_list_result", result |-> result,
                               resource_name |-> resource_name,
                               formatting |-> formatting]
                   /\ ret' = r.ret
                   /\ stdout' = stdout \o r.echoed
                   /\ UNCHANGED <<ctx, formatterCalls, stderr, exit, client, vendorCalls>>

FormatResultList ==
    /\ pc = "start"
    /\ \E resource_name \in ResourceNames :
           \E result \in ListResults(resource_name) :
               LET r == format_result_list(result, resource_name)
               IN  /\ pc' = "done"
                   /\ call' = [op |-> "format_result_list", result |-> result,
                               resource_name |-> resource_name,
                               formatting |-> FORMAT_TABLE]
                   /\ ret' = r.ret
                   /\ stdout' = stdout \o r.echoed
                   /\ UNCHANGED <<ctx, formatterCalls, stderr, exit, client, vendorCalls>>

FormatGetResult ==
    /\ pc = "start"
    /\ \E result \in ItemResults, formatting \in Formattings :
           LET r == format_get_result(result, formatting)
           IN  /\ pc' = "done"
               /\ call' = [op |-> "format_get_result", result |-> result,
                           resource_name |-> "", formatting |-> formatting]
               /\ ret' = r.ret
               /\ stdout' = stdout \o r.echoed
               /\ UNCHANGED <<ctx, formatterCalls, stderr, exit, client, vendorCalls>>

FormatResultItem ==
    /\ pc = "start"
    /\ \E result \in ItemResults :
           LET r == format_result_item(result)
           IN  /\ pc' = "done"
               /\ call' = [op |-> "format_result_item", result |-> result,
                           resource_name |-> "", formatting |-> FORMAT_TABLE]
               /\ ret' = r.ret
               /\ stdout' = stdout \o r.echoed
               /\ UNCHANGED <<ctx, formatterCalls, stderr, exit, client, vendorCalls>>

(* The cell values handed to csv_format_value: strings (one of them ISO    *)
(* 8601), an integer, a boolean and None.                                  *)
CellValues ==
    {StrValue("paid"), StrValue("never"), StrValue(IsoString),
     IntValue("2"), BoolValue("True"), NoneValue}

CsvFormatValue ==
    /\ pc = "start"
    /\ \E value \in CellValues :
           /\ pc' = "done"
           /\ call' = [op |-> "csv_format_value", value |-> value]
           /\ ret' = csv_format_value(value)
           /\ UNCHANGED <<ctx, formatterCalls, stderr, exit, client, vendorCalls, stdout>>

NextFormatting ==
    \/ FormatListResult
    \/ FormatResultList
    \/ FormatGetResult
    \/ FormatResultItem
    \/ CsvFormatValue

SpecFormatting == InitFormatting /\ [][NextFormatting]_vars

----------------------------------------------------------------------------
(* commandline.py: the get and list commands as runs of the process.       *)
(*                                                                         *)
(* A run fetches through the client, hands what it fetched to the          *)
(* formatter, and exits; an exception raised by either step inside the     *)
(* with-block reaches handle_client_exceptions.                            *)

(* A resource name of the client as the text handed to the formatter.      *)
RECURSIVE Text(_)
Text(s) == IF s = <<>> THEN "" ELSE Head(s) \o Text(Tail(s))

(* What the vendor answers to a successful call: for get, an item whose    *)
(* dict holds a string or an integer; for list, records holding an id.     *)
FetchedItems ==
    {[attrs |-> BaseAttrs, items |-> <<e>>] :
        e \in {<<"id", StrValue("tr_1")>>, <<"count", IntValue("2")>>}}
FetchedLists == ListResults("methods")

(* The clients the commands run against: live-mode clients whose resources *)
(* have the first character of their name as id prefix.                    *)
CommandClients ==
    {c \in Clients :
        /\ ~c.testmode
        /\ \A n \in AttrNames :
               c.attrs[n].has => c.attrs[n].prefix = <<Head(n)>>}

(* Variant of handle_client_exceptions: an APIError is reported on the     *)
(* error stream but the process is not made to exit with a failure.        *)
handle_client_exceptions_no_exit(raised) ==
    CASE raised.exc = "APIError" ->
            [echoed |-> <<[text |-> "The Mollie API returned an error",
                           exc |-> raised.msg]>>,
             exit |-> Exited(0)]
      [] raised.exc = "ClientError" ->
            [echoed |-> <<[text |-> "Something went wrong while handling your command",
                           exc |-> raised.msg]>>,
             exit |-> Exited(1)]
      [] OTHER ->
            [echoed |-> <<[text |-> "Traceback (most recent call last)",
                           exc |-> raised.msg]>>,
             exit |-> Exited(1)]

(* handle_client_exceptions: APIError and ClientError are echoed to the    *)
(* error stream and the process exits with 1.  Any other exception is not  *)
(* caught: it leaves the command, the interpreter writes its traceback to  *)
(* the error stream and exits with 1.                                      *)
handle_client_exceptions(raised) ==
    CASE raised.exc = "APIError" ->
            [echoed |-> <<[text |-> "The Mollie API returned an error",
                           exc |-> raised.msg]>>,
             exit |-> Exited(1)]
      [] raised.exc = "ClientError" ->
            [echoed |-> <<[text |-> "Something went wrong while handling your command",
                           exc |-> raised.msg]>>,
             exit |-> Exited(1)]
      [] OTHER ->
            [echoed |-> <<[text |-> "Traceback (most recent call last)",
                           exc |-> raised.msg]>>,
             exit |-> Exited(1)]

(* cli(): the --format option is one of ALL_FORMATS (click.Choice lowers   *)
(* the case of what the user typed to the listed choice).                  *)
InitCommand ==
    /\ client \in CommandClients
    /\ pc = "start"
    /\ call = NoCall
    /\ ret = Return(None)
    /\ vendorCalls = <<>>
    /\ stdout = <<>>
    /\ ctx \in [formatting : Range(ALL_FORMATS)]
    /\ formatterCalls = <<>>
    /\ stderr = <<>>
    /\ exit = Running

(* get: result, _ = client.get(resource_id, hint).  The vendor's outcome   *)
(* and answer are drawn only where the run uses them.                      *)
CommandGet ==
    /\ pc = "start"
    /\ \E resource_id \in ResourceIds, hint \in Hints \cup {None},
          outcome \in VendorOutcomes, result \in FetchedItems :
           LET r == get(client, resource_id, hint, outcome)
           IN  /\ r.calls = <<>> => (outcome = "ok" /\ result.items = BaseItems)
               /\ r.out.exc # "none" => result.items = BaseItems
               /\ call' = [op |-> "get", resource_id |-> resource_id, hint |-> hint]
               /\ vendorCalls' = vendorCalls \o r.calls
               /\ IF r.out.exc = "none"
                      THEN /\ pc' = "fetched"
                           /\ ret' = Return([result |-> result,
                                             resource_name |-> r.out.value])
                      ELSE /\ pc' = "raised"
                           /\ ret' = r.out
               /\ UNCHANGED <<ctx, formatterCalls, stderr, exit, client, stdout>>

(* list: result, resource_name = client.list(resource, limit)              *)
CommandList ==
    /\ pc = "start"
    /\ \E resource \in Hints, limit \in Limits,
          outcome \in VendorOutcomes, result \in FetchedLists :
           LET r == list(client, resource, limit, outcome)
           IN  /\ r.calls = <<>> => (outcome = "ok" /\ result = <<>>)
               /\ r.out.exc # "none" => result = <<>>
               /\ call' = [op |-> "list", resource_name |-> resource, limit |-> limit]
               /\ vendorCalls' = vendorCalls \o r.calls
               /\ IF r.out.exc = "none"
                      THEN /\ pc' = "fetched"
                           /\ ret' = Return([result |-> result,
                                             resource_name |-> r.out.value])
                      ELSE /\ pc' = "raised"
                           /\ ret' = r.out
               /\ UNCHANGED <<ctx, formatterCalls, stderr, exit, client, stdout>>

(* get: format_get_result(result, formatting), then the command returns.   *)
CommandFormatGet ==
    /\ pc = "fetched"
    /\ call.op = "get"
    /\ LET r == format_get_result(ret.value.result, ctx.formatting)
       IN  /\ formatterCalls' = Append(formatterCalls,
                                       [op |-> "format_get_result",
                                        formatting |-> ctx.formatting])
           /\ stdout' = stdout \o r.echoed
           /\ IF r.ret.exc = "none"
                  THEN /\ pc' = "exited"
                       /\ exit' = Exited(0)
                       /\ ret' = r.ret
                  ELSE /\ pc' = "raised"
                       /\ ret' = r.ret
                       /\ UNCHANGED exit
           /\ UNCHANGED <<client, call, vendorCalls, ctx, stderr>>

(* list: format_list_result(result, resource_name, formatting), then the   *)
(* command returns.                                                        *)
CommandFormatList ==
    /\ pc = "fetched"
    /\ call.op = "list"
    /\ LET r == format_list_result(ret.value.result,
                                   Text(ret.value.resource_name), ctx.formatting)
       IN  /\ formatterCalls' = Append(formatterCalls,
                                       [op |-> "format_list_result",
                                        formatting |-> ctx.formatting])
           /\ stdout' = stdout \o r.echoed
           /\ IF r.ret.exc = "none"
                  THEN /\ pc' = "exited"
                       /\ exit' = Exited(0)
                  ELSE /\ pc' = "raised"
                       /\ UNCHANGED exit
           /\ ret' = r.ret
           /\ UNCHANGED <<client, call, vendorCalls, ctx, stderr>>

(* An exception raised inside the with-block ends the run.                 *)
HandleClientExceptions ==
    /\ pc = "raised"
    /\ LET h == handle_client_exceptions(ret)
       IN  /\ stderr' = stderr \o h.echoed
           /\ exit' = h.exit
           /\ pc' = "exited"
           /\ UNCHANGED <<client, call, ret, vendorCalls, stdout, ctx, formatterCalls>>

NextCommand ==
    \/ CommandGet
    \/ CommandList
    \/ CommandFormatGet
    \/ CommandFormatList
    \/ HandleClientExceptions

SpecCommand == InitCommand /\ [][NextCommand]_vars

----------------------------------------------------------------------------
(* Properties of the resolver, stated on the vendor client itself.         *)

(* The resource names the client supports and their id prefixes.           *)
KnownNames ==
    {n \in DOMAIN client.attrs :
        client.attrs[n].has /\ client.attrs[n].prefix # <<>>}
PrefixOf(n) == client.attrs[n].prefix

(* The known names that contain the hint.                                  *)
Containing(hint) == {n \in KnownNames : StrIn(hint, n)}

FoundByHint == pc = "done" /\ call.op = "find_resource_name"

(* C1: a hint that exactly equals a known resource name is returned as     *)
(* that name, however many other known names contain it.                   *)
C1_ExactMatchWins ==
    (FoundByHint /\ call.hint \in KnownNames) => ret = Return(call.hint)

C1_Witness ==
    /\ FoundByHint
    /\ call.hint \in KnownNames
    /\ Cardinality(Containing(call.hint)) >= 3
    /\ ret = Return(call.hint)

(* C2: a hint that equals no known name and is contained in two or more    *)
(* known names fails with the "Hint matches multiple resources" client     *)
(* error, whose message lists exactly the names containing the hint.       *)
C2_AmbiguousListsMatches ==
    (FoundByHint /\ call.hint \notin KnownNames
                 /\ Cardinality(Containing(call.hint)) >= 2)
        => /\ ret.exc = "ClientError"
           /\ ret.msg.text = "Hint matches multiple resources"
           /\ Range(ret.msg.names) = Containing(call.hint)
           /\ Len(ret.msg.names) = Cardinality(Containing(call.hint))

C2_Witness ==
    /\ FoundByHint
    /\ call.hint \notin KnownNames
    /\ Cardinality(Containing(call.hint)) = 2
    /\ Cardinality(KnownNames) = 3
    /\ ret.msg.text = "Hint matches multiple resources"

(* C3: a hint contained in no known name fails with the "No resource found *)
(* for name" client error, whose message lists all known names; no name is *)
(* returned.                                                               *)
C3_UnknownListsAll ==
    (FoundByHint /\ Containing(call.hint) = {})
        => /\ ret.exc = "ClientError"
           /\ ret.value = None
           /\ ret.msg.text = "No resource found for name"
           /\ ret.msg.arg = call.hint
           /\ Range(ret.msg.names) = KnownNames
           /\ Len(ret.msg.names) = Cardinality(KnownNames)

C3_Witness ==
    /\ FoundByHint
    /\ Containing(call.hint) = {}
    /\ Cardinality(KnownNames) >= 2
    /\ ret.exc = "ClientError"

GotWithoutHint == pc = "done" /\ call.op = "get" /\ call.hint \in {None, <<>>}

(* The leading characters of a string: its first k characters, any k.      *)
LeadingChars(s) == {[i \in 1..k |-> s[i]] : k \in 0..Len(s)}

(* The known names whose id prefix equals leading characters of the id.    *)
PrefixMatches(resource_id) ==
    {n \in KnownNames : PrefixOf(n) \in LeadingChars(resource_id)}

(* Position of a known name in the enumeration of the resources map.       *)
MapIndex(n) ==
    LET map_ == get_supported_resources_map(client)
    IN  CHOOSE i \in 1..Len(map_) : map_[i][1] = n

(* C4: get without a hint dispatches to the first resource, in the order   *)
(* of the supported-resources map, whose id prefix is a prefix of the      *)
(* resource id; when exactly one known prefix matches, to that resource.   *)
C4_FirstPrefixMatchUsed ==
    (GotWithoutHint /\ PrefixMatches(call.resource_id) # {})
        => /\ Len(vendorCalls) = 1
           /\ vendorCalls[1].op = "get"
           /\ vendorCalls[1].id = call.resource_id
           /\ vendorCalls[1].resource \in PrefixMatches(call.resource_id)
           /\ \A n \in PrefixMatches(call.resource_id) :
                 MapIndex(vendorCalls[1].resource) <= MapIndex(n)
           /\ \A n \in KnownNames :
                 PrefixMatches(call.resource_id) = {n}
                     => vendorCalls[1].resource = n

C4_Witness ==
    /\ GotWithoutHint
    /\ Cardinality(PrefixMatches(call.resource_id)) >= 2
    /\ Len(vendorCalls) = 1
    /\ ret.exc = "none"
    /\ \E n \in PrefixMatches(call.resource_id) :
          PrefixOf(n) # PrefixOf(vendorCalls[1].resource)

(* C5: get without a hint, for a resource id that starts with no known id  *)
(* prefix, fails with the "Cannot find a resource for id" client error     *)
(* and makes no vendor call.                                               *)
C5_UnrecognizedIdFails ==
    (GotWithoutHint /\ PrefixMatches(call.resource_id) = {})
        => /\ ret.exc = "ClientError"
           /\ ret.msg.text = "Cannot find a resource for id"
           /\ ret.msg.arg = call.resource_id
           /\ vendorCalls = <<>>

C5_Witness ==
    /\ GotWithoutHint
    /\ KnownNames # {}
    /\ Len(call.resource_id) >= 2
    /\ PrefixMatches(call.resource_id) = {}
    /\ ret.exc = "ClientError"

----------------------------------------------------------------------------
(* Properties of the formatters.                                           *)

ListedAsCsv ==
    pc = "done" /\ call.op = "format_list_result" /\ call.formatting = FORMAT_CSV

(* A compound amount: a mapping with exactly the keys currency and value.  *)
IsAmount(value) ==
    /\ value.kind = "dict"
    /\ Len(value.items) = 2
    /\ {value.items[1][1], value.items[2][1]} = {"currency", "value"}

(* The value a mapping holds under a key.                                  *)
Under(value, key) ==
    (CHOOSE item \in Range(value.items) : item[1] = key)[2]

(* The projected keys of the listed resource, in projection order.         *)
ProjectedKeys == FieldKeys(PropertiesFor(call.resource_name))

(* The projected field, in every listed record, holds an amount, and every *)
(* other projected field a string or None.                                 *)
AmountColumn(p) ==
    /\ call.result # <<>>
    /\ \A i \in 1..Len(call.result), q \in 1..Len(ProjectedKeys) :
          LET value == call.result[i][ProjectedKeys[q]]
          IN  IF q = p THEN IsAmount(value) ELSE value.kind \in {"str", "none"}

(* C6: in CSV mode, a projected field holding a compound amount gives the  *)
(* header columns <field>_currency and <field>_value at the position of    *)
(* the field, no column <field>, and in each data row the currency and the *)
(* value in those two positions.                                           *)
C6_AmountExpanded ==
    \A p \in 1..4 :
        (ListedAsCsv /\ p <= Len(ProjectedKeys) /\ AmountColumn(p))
            => /\ Len(stdout) = 1
               /\ stdout[1].fmt = "csv"
               /\ LET header == stdout[1].rows[1]
                      key == ProjectedKeys[p]
                  IN  /\ Len(header) = Len(ProjectedKeys) + 1
                      /\ header[p] = StrValue(key \o "_currency")
                      /\ header[p + 1] = StrValue(key \o "_value")
                      /\ StrValue(key) \notin Range(header)
                      /\ \A i \in 1..Len(call.result) :
                            LET row == stdout[1].rows[i + 1]
                                value == call.result[i][key]
                            IN  /\ Len(row) = Len(header)
                                /\ row[p] = Under(value, "currency")
                                /\ row[p + 1] = Under(value, "value")

(* C7: in CSV mode every emitted data row has as many cells as the header  *)
(* row, and each cell is the value of the field its header names.          *)
C7_RowsRectangular ==
    (ListedAsCsv /\ Len(stdout) = 1)
        => LET header == stdout[1].rows[1]
           IN  \A i \in 1..Len(call.result) :
                  LET row == stdout[1].rows[i + 1]
                  IN  /\ Len(row) = Len(header)
                      /\ \A j \in 1..Len(header) :
                            /\ header[j].s \in Range(ProjectedKeys)
                            /\ row[j].s = call.result[i][header[j].s].s
                               \/ row[j].kind = "datetime"

(* C8: format_list_result and format_get_result, given a format other than *)
(* table, json and csv, fail with the "Unsupported formatting" client      *)
(* error and write nothing to standard output.                             *)
C8_UnsupportedFormatFails ==
    (/\ pc = "done"
     /\ call.op \in {"format_list_result", "format_get_result"}
     /\ call.formatting \notin {"table", "json", "csv"})
        => /\ ret.exc = "ClientError"
           /\ ret.msg.text = "Unsupported formatting"
           /\ ret.msg.arg = call.formatting
           /\ stdout = <<>>

C8_Witness ==
    /\ pc = "done"
    /\ call.op = "format_list_result"
    /\ call.formatting = "CSV"
    /\ Len(call.result) = 2
    /\ ret.exc = "ClientError"
    /\ stdout = <<>>

ItemAsTable ==
    /\ pc = "done"
    /\ \/ call.op = "format_get_result" /\ call.formatting = FORMAT_TABLE
       \/ call.op = "format_result_item"

LowercaseLetters == {"a", "b", "c", "d", "e", "i", "o", "r", "s", "u"}
UppercaseLetters == {"A"}

(* The name starts with the reserved marker, or is all-uppercase.          *)
ReservedOrUppercase(name) ==
    \/ name[1] = "_"
    \/ /\ Range(name) \cap UppercaseLetters # {}
       /\ Range(name) \cap LowercaseLetters = {}

(* The value is a string, integer, boolean, key-value mapping or None.     *)
Presentable(value) ==
    value.kind \in {"str", "int", "bool", "dict", "dictsub", "none"}

ItemAsCsv ==
    pc = "done" /\ call.op = "format_get_result" /\ call.formatting = FORMAT_CSV

(* The leaves of a mapping outside every _links section, each as the pair  *)
(* of the underscore-joined path of its keys and its value.                *)
RECURSIVE LeavesOf(_, _)
LeavesOf(items, path) ==
    UNION {LET key == items[i][1]
               value == items[i][2]
               joined == IF path = "" THEN key ELSE path \o "_" \o key
           IN  IF key = "_links" THEN {}
               ELSE IF value.kind \in {"str", "int", "bool", "none"}
                   THEN {<<joined, value>>}
               ELSE IF value.kind = "dict" THEN LeavesOf(value.items, joined)
               ELSE {} : i \in 1..Len(items)}

(* A cell holds the value of the leaf: the date/time of an ISO-8601        *)
(* string, the value itself otherwise.                                     *)
CellOf(cell, value) ==
    IF value.kind = "str" /\ value.s = IsoString
        THEN cell.kind = "datetime"
        ELSE cell = value

(* C10: in CSV mode a fetched item gives one header row and one data row   *)
(* of equal length; the header holds, once each, the underscore-joined     *)
(* paths of the leaves outside every _links section, and the data row the  *)
(* value of such a leaf under each.                                        *)
C10_ItemFlattened ==
    ItemAsCsv
        => /\ Len(stdout) = 1
           /\ stdout[1].fmt = "csv"
           /\ Len(stdout[1].rows) = 2
           /\ LET header == stdout[1].rows[1]
                  row == stdout[1].rows[2]
                  leaves == LeavesOf(call.result.items, "")
              IN  /\ Len(header) = Len(row)
                  /\ {header[j].s : j \in 1..Len(header)} = {l[1] : l \in leaves}
                  /\ \A j, k \in 1..Len(header) : header[j] = header[k] => j = k
                  /\ \A j \in 1..Len(header) :
                        \E l \in leaves : l[1] = header[j].s /\ CellOf(row[j], l[2])

ListedAsTable ==
    pc = "done" /\ call.op = "format_list_result" /\ call.formatting = FORMAT_TABLE

(* The projection registered for the listed resource name, or _default_.   *)
RegisteredNames ==
    {"clients", "customers", "orders", "payments", "profiles", "refunds"}
Projection ==
    IF call.resource_name \in RegisteredNames
        THEN RESOURCES_LIST_PROPERTIES[call.resource_name]
        ELSE << <<"ID", "id">> >>

(* Some listed record lacks the attribute of a projected field.            *)
SomeFieldMissing ==
    \E i \in 1..Len(call.result), q \in 1..Len(Projection) :
        call.result[i][Projection[q][2]] = Absent

(* The table written: its header holds the labels of the projection in     *)
(* order, and row i holds the projected fields of record i in order, a     *)
(* None field as an empty cell.                                            *)
ProjectedTable(table) ==
    /\ Len(table) = Len(call.result) + 1
    /\ table[1] = [q \in 1..Len(Projection) |-> StrValue(Projection[q][1])]
    /\ \A i \in 1..Len(call.result) :
          /\ Len(table[i + 1]) = Len(Projection)
          /\ \A q \in 1..Len(Projection) :
                LET field == call.result[i][Projection[q][2]]
                IN  /\ table[i + 1][q] = field
                    /\ field = NoneValue => TabulateCell(table[i + 1][q]) = ""

(* C11 as stated: in TABLE mode a list is written as the projected table,  *)
(* a missing or None field as an empty cell.                               *)
C11_MissingRendersEmpty ==
    ListedAsTable
        => /\ ret.exc = "none"
           /\ Len(stdout) = 2
           /\ stdout[2].fmt = "table"
           /\ \A i \in 1..Len(call.result), q \in 1..Len(Projection) :
                 call.result[i][Projection[q][2]] \in {Absent, NoneValue}
                     => TabulateCell(stdout[2].rows[i + 1][q]) = ""

(* C11, amended: in TABLE mode a list whose records all have the projected *)
(* attributes is written as the table of the projection registered for the *)
(* resource name, or of _default_: the labels, then one row per record in  *)
(* input order, a None field as an empty cell.  A record that lacks a      *)
(* projected attribute makes the call raise AttributeError and write       *)
(* nothing.                                                                *)
C11_ListTable ==
    ListedAsTable
        => IF SomeFieldMissing
               THEN ret.exc = "AttributeError" /\ stdout = <<>>
               ELSE /\ ret.exc = "none"
                    /\ Len(stdout) = 2
                    /\ stdout[1].fmt = "text"
                    /\ stdout[2].fmt = "table"
                    /\ ProjectedTable(stdout[2].rows)

C11_Witness ==
    /\ ListedAsTable
    /\ call.resource_name = "customers"
    /\ Len(call.result) = 2
    /\ call.result[1]["email"] = NoneValue
    /\ call.result[2]["email"] = StrValue("a@x.com")
    /\ Len(stdout) = 2
    /\ TabulateCell(stdout[2].rows[2][2]) = ""

----------------------------------------------------------------------------
(* Properties of the get and list commands.                                *)

(* The vendor client failed while retrieving data in this run.             *)
VendorFailed ==
    \E i \in 1..Len(vendorCalls) : vendorCalls[i].outcome = "NativeMollieError"

ApiErrorReport ==
    [text |-> "The Mollie API returned an error",
     exc |-> [text |-> "NativeMollieError", arg |-> <<>>, names |-> <<>>]]

(* C12: in every get or list command run in which the vendor client fails  *)
(* during retrieval, the failure is raised as APIError, the formatter is   *)
(* never called, nothing is written to standard output, and the run ends   *)
(* with the API error message on the error stream and a non-zero exit      *)
(* code.                                                                   *)
C12_VendorFailureSurfaced ==
    VendorFailed =>
        /\ formatterCalls = <<>>
        /\ stdout = <<>>
        /\ pc \in {"raised", "exited"}
        /\ ret.exc = "APIError"
        /\ pc = "raised" => (stderr = <<>> /\ ~exit.exited)
        /\ pc = "exited" =>
               /\ stderr = <<ApiErrorReport>>
               /\ exit.exited
               /\ exit.code # 0

C12_Witness ==
    /\ VendorFailed
    /\ pc = "exited"
    /\ call.op = "list"
    /\ ctx.formatting = FORMAT_CSV
    /\ stderr = <<ApiErrorReport>>
    /\ exit = Exited(1)

(* A list command has called client.list.                                  *)
Listed == call.op = "list" /\ pc # "start"

ResolverErrors == {"No resource found for name", "Hint matches multiple resources"}

(* The known names the resolver accepts for a name: the name itself when   *)
(* it is known, else the known names containing it.                        *)
ResolvesTo(name) == IF name \in KnownNames THEN {name} ELSE Containing(name)

(* C13 as stated: a list command hands the name the user gave to the       *)
(* vendor list call without resolving it, so it never fails with the       *)
(* unknown-resource or ambiguous-resource error and never lists a resource *)
(* other than the one literally named.                                     *)
C13_ListSkipsResolver ==
    Listed =>
        /\ ret.msg.text \notin ResolverErrors
        /\ \A i \in 1..Len(stderr) : stderr[i].exc.text \notin ResolverErrors
        /\ \A i \in 1..Len(vendorCalls) :
               vendorCalls[i].resource = call.resource_name

(* C13: a list command resolves the name the user gave with                *)
(* find_resource_name before the vendor list call.  When the name equals   *)
(* a known name, or is contained in exactly one, that one resource is      *)
(* listed by a single vendor call; when no known name contains it the run  *)
(* fails with the unknown-resource error, when several do and none equals  *)
(* it with the ambiguous-resource error, and in both cases without any     *)
(* vendor call, formatter call or output.                                  *)
C13_ListResolvesName ==
    Listed =>
        LET matches == ResolvesTo(call.resource_name)
        IN  IF Cardinality(matches) = 1
                THEN /\ Len(vendorCalls) = 1
                     /\ vendorCalls[1].op = "list"
                     /\ vendorCalls[1].resource \in matches
                     /\ ret.msg.text \notin ResolverErrors
                ELSE /\ vendorCalls = <<>>
                     /\ formatterCalls = <<>>
                     /\ stdout = <<>>
                     /\ pc \in {"raised", "exited"}
                     /\ ret.exc = "ClientError"
                     /\ ret.msg.text = IF matches = {}
                                           THEN "No resource found for name"
                                           ELSE "Hint matches multiple resources"
                     /\ pc = "exited" =>
                            /\ exit = Exited(1)
                            /\ stderr =
                                   <<[text |-> "Something went wrong while handling your command",
                                      exc |-> ret.msg]>>

C13_Witness ==
    /\ Listed
    /\ pc = "exited"
    /\ call.resource_name = <<"b">>
    /\ KnownNames = {<<"a">>, <<"b", "a">>}
    /\ Len(vendorCalls) = 1
    /\ vendorCalls[1].resource = <<"b", "a">>
    /\ vendorCalls[1].outcome = "ok"
    /\ Len(formatterCalls) = 1
    /\ exit = Exited(0)

----------------------------------------------------------------------------
(* Properties of the CSV cell coercion.                                    *)

CellCoerced == pc = "done" /\ call.op = "csv_format_value"

RenderedAsCsv ==
    /\ pc = "done"
    /\ call.op \in {"format_list_result", "format_get_result"}
    /\ call.formatting = FORMAT_CSV

(* C14: for every cell value that is a string, an integer, a boolean or    *)
(* None, csv_format_value returns without raising: the native date/time    *)
(* for an ISO 8601 string and the value unchanged otherwise; and           *)
(* format_list_result and format_get_result in CSV mode never abort with   *)
(* an error of the cell coercion while writing rows.                       *)
C14_CellCoercionTotal ==
    /\ (CellCoerced /\ call.value.kind \in {"str", "int", "bool", "none"})
           => /\ ret.exc = "none"
              /\ ret.value = IF call.value.kind = "str" /\ call.value.s = IsoString
                                 THEN DateTime("2022-05-01 12:00:00+00:00")
                                 ELSE call.value
    /\ RenderedAsCsv => ret.exc # "TypeError"

====
